---- MODULE Spec2Model ----
(***************************************************************************)
(* The stp tokenizer (src/src/lib.rs): the line grid, the (ln, col)        *)
(* cursor, the one-character lookahead, the dispatcher loop of tokenize    *)
(* and the sub-scanners, one action per loop iteration.                    *)
(*                                                                         *)
(* A character is a string; the characters that have no printable form are *)
(* named (TAB, LF, ...).  Locations are 0-based as in the source, TLA+     *)
(* sequences are 1-based: lines[ln + 1][col + 1] is the source's           *)
(* lines[ln][col].                                                         *)
(***************************************************************************)
EXTENDS Integers, Sequences, FiniteSets, TLC

VARIABLES
    lines,      \* Tokenizer.lines : Vec<Vec<char>>
    config,     \* Tokenizer.config
    ln,         \* Tokenizer.ln
    col,        \* Tokenizer.col
    tokens,     \* tokenize: the local `tokens`
    pc,         \* the function whose loop is running, or "Ok" / "Err" / "Panic"
    err,        \* the TokenizationError returned when pc = "Err"
    buf,        \* the sub-scanner's text (word / float / num / string / chr)
    start,      \* <<start_ln, start_col>> of the running sub-scanner
    flag,       \* encountered_dot / parsing_float / is_escaped
    inner_col,  \* parse_number: inner_col
    num_type,   \* parse_number: num_type
    delim,      \* parse_string: delim
    warned,     \* consume printed its out-of-characters warning
    calls       \* the builder calls made so far (a record of the run; no
                \* code reads it)

vars == <<lines, config, ln, col, tokens, pc, err, buf, start, flag,
          inner_col, num_type, delim, warned, calls>>

-----------------------------------------------------------------------------
(* Bounds of the model.                                                    *)

\* the longest raw input, in characters, line feeds included
MaxChars == 4

\* the most builder calls made before build
MaxCalls == 3

-----------------------------------------------------------------------------
(* Characters.                                                             *)

SP == " "
TAB == "TAB"
LF == "LF"
CR == "CR"
NUL == "NUL"
DQ == "DQ"
SQ == "SQ"
BS == "BS"
\* U+00E9, two bytes in UTF-8; U+3042 (main.rs), three bytes
EAcute == "U+00E9"
HiraganaA == "U+3042"

\* Option::None of get_next_char / peek_tok
None == "None"
\* Choice::No
No == "No"

\* char::is_ascii_digit
is_ascii_digit(c) == c \in {"0", "1", "2", "3", "4", "5", "6", "7", "8", "9"}

\* is_ascii_hexdigit without the letters a-f, A-F
is_ascii_hexdigit_no_letters(c) == is_ascii_digit(c)

\* char::is_ascii_hexdigit
is_ascii_hexdigit(c) ==
    \/ is_ascii_digit(c)
    \/ c \in {"a", "b", "c", "d", "e", "f", "A", "B", "C", "D", "E", "F"}

\* matches!(*c, '0' | '1' | '2' | '3' | '4' | '5' | '6' | '7')
is_octal_digit(c) == c \in {"0", "1", "2", "3", "4", "5", "6", "7"}

\* matches!(*c, '1' | '0')
is_binary_digit(c) == c \in {"1", "0"}

\* char::len_utf8, for the characters the model uses
len_utf8(c) ==
    IF c = EAcute THEN 2 ELSE IF c = HiraganaA THEN 3 ELSE 1

\* String::len : the length in bytes
RECURSIVE string_len(_)
string_len(s) ==
    IF s = <<>> THEN 0 ELSE len_utf8(Head(s)) + string_len(Tail(s))

\* a contains that finds nothing
contains_nothing(v, c) == FALSE

\* Vec::contains
contains(v, c) == \E i \in 1..Len(v) : v[i] = c

-----------------------------------------------------------------------------
(* Configuration and its builder.                                          *)

\* TokenizerBuilder::new
builder_new ==
    [parse_char_as_string |-> FALSE,
     ignore_numbers |-> FALSE,
     allow_digit_separator |-> No,
     consider_as_symbols |-> <<".">>,
     consider_as_operators |-> <<>>]

builder_parse_char_as_string(conf, set_to) ==
    [conf EXCEPT !.parse_char_as_string = set_to]

\* ignore_numbers that a later call cannot switch off
builder_ignore_numbers_sticky(conf, set_to) ==
    [conf EXCEPT !.ignore_numbers = @ \/ set_to]

builder_ignore_numbers(conf, set_to) ==
    [conf EXCEPT !.ignore_numbers = set_to]

builder_allow_digit_separator(conf, choice) ==
    [conf EXCEPT !.allow_digit_separator = choice]

builder_add_symbol(conf, sym) ==
    [conf EXCEPT !.consider_as_symbols = Append(@, sym)]

builder_add_symbols(conf, syms) ==
    [conf EXCEPT !.consider_as_symbols = @ \o syms]

builder_add_operator(conf, op) ==
    [conf EXCEPT !.consider_as_operators = Append(@, op)]

builder_add_operators(conf, ops) ==
    [conf EXCEPT !.consider_as_operators = @ \o ops]

-----------------------------------------------------------------------------
(* Tokenizer::new : the input split into lines of characters.              *)

\* str::lines strips the "\r" of a "\r\n" line ending
strip_cr(line) ==
    IF line # <<>> /\ line[Len(line)] = CR
    THEN SubSeq(line, 1, Len(line) - 1)
    ELSE line

\* str::lines : split at line feeds; a final line feed opens no line
RECURSIVE split_lines(_, _)
split_lines(s, cur) ==
    IF s = <<>> THEN (IF cur = <<>> THEN <<>> ELSE <<cur>>)
    ELSE IF Head(s) = LF
         THEN <<strip_cr(cur)>> \o split_lines(Tail(s), <<>>)
         ELSE split_lines(Tail(s), Append(cur, Head(s)))

input_lines(input) == split_lines(input, <<>>)

-----------------------------------------------------------------------------
(* The bounds model: classification, advance, lookahead.                   *)

is_out_of_bound(l, c) ==
    IF l >= Len(lines) THEN "Out"
    ELSE IF lines[l + 1] # <<>>
         THEN (IF c >= Len(lines[l + 1]) THEN "Out" ELSE "Within")
         ELSE "Empty"

\* is_out_of_bound_for without its empty-line case
is_out_of_bound_for_no_empty(self_ln, l, c) ==
    IF l >= Len(lines) THEN "Out"
    ELSE IF self_ln >= Len(lines) THEN "Panic"
    ELSE IF c >= Len(lines[self_ln + 1]) THEN "Out" ELSE "Within"

\* the column is compared with the length of the live cursor's line, self_ln;
\* indexing that line panics when self_ln is no line
is_out_of_bound_for(self_ln, l, c) ==
    IF l >= Len(lines) THEN "Out"
    ELSE IF lines[l + 1] # <<>>
         THEN (IF self_ln >= Len(lines) THEN "Panic"
               ELSE IF c >= Len(lines[self_ln + 1]) THEN "Out" ELSE "Within")
         ELSE "Empty"

\* a consume that never moves to the next line
consume_same_line(l, c, len) == [ln |-> l, col |-> c + len, warned |-> FALSE]

\* a consume that advances nothing
consume_nothing(l, c, len) == [ln |-> l, col |-> c, warned |-> FALSE]

\* consume(len) from cursor (l, c): the cursor it leaves, and whether the
\* out-of-characters warning was printed
RECURSIVE consume(_, _, _)
consume(l, c, len) ==
    IF len = 0 THEN [ln |-> l, col |-> c, warned |-> FALSE]
    ELSE IF l + 1 > Len(lines)
         THEN (IF is_out_of_bound(l, c) = "Out"
               THEN [ln |-> l, col |-> c, warned |-> TRUE]
               ELSE consume(l + 1, c, len - 1))
         ELSE IF c + 1 >= Len(lines[l + 1])
              THEN consume(l + 1, 0, len - 1)
              ELSE consume(l, c + 1, len - 1)

\* a lookahead position that never moves to the next line
fake_position_same_line(l, c, len) == <<l, c + len>>

\* the position fake_consume(len) computes from cursor (l, c)
RECURSIVE fake_position(_, _, _)
fake_position(l, c, len) ==
    IF len = 0 THEN <<l, c>>
    ELSE IF l + 1 > Len(lines)
         THEN fake_position(l + 1, c, len - 1)
         ELSE IF c + 1 >= Len(lines[l + 1])
              THEN fake_position(l + 1, 0, len - 1)
              ELSE fake_position(l, c + 1, len - 1)

fake_consume(l, c, len) ==
    LET loc == fake_position(l, c, len)
    IN  <<is_out_of_bound_for(l, loc[1], loc[2]), loc>>

get_next_char(l, c) ==
    IF is_out_of_bound(l, c) = "Within" THEN lines[l + 1][c + 1] ELSE None

\* "Panic" stands for an index out of range
peek_tok(l, c) ==
    LET r == fake_consume(l, c, 1)
        bound == r[1]
        loc == r[2]
    IN  CASE bound = "Empty" -> LF
          [] bound = "Out" -> None
          [] bound = "Within" ->
                IF loc[1] < Len(lines) /\ loc[2] < Len(lines[loc[1] + 1])
                THEN lines[loc[1] + 1][loc[2] + 1]
                ELSE "Panic"
          [] OTHER -> "Panic"

-----------------------------------------------------------------------------
(* Tokens and errors.                                                      *)

\* a token that records no location: Loc(0, 0) whatever the start was
Token_at_origin(type, ntype, value, loc) ==
    [type |-> type, ntype |-> ntype, value |-> value, loc |-> <<0, 0>>]

\* Token { type, value, loc }; ntype is the NumberType of a Number
Token(type, ntype, value, loc) ==
    [type |-> type, ntype |-> ntype, value |-> value, loc |-> loc]

NoError == [kind |-> "None", loc |-> <<0, 0>>]

NotAValidChar(loc) == [kind |-> "NotAValidChar", loc |-> loc]

UnexpectedDigitSeparator(loc) ==
    [kind |-> "UnexpectedDigitSeparator", loc |-> loc]

-----------------------------------------------------------------------------
(* The inputs and configurations the model explores: every raw input of at *)
(* most MaxChars characters over one of the alphabets below (line feeds    *)
(* included), under the configurations built for that alphabet.            *)

WordChars == {SP, TAB, "a", ";", "+"}
DecimalChars == {"0", "1", ".", "_", SP}
RadixChars == {"0", "x", "o", "b", "1", "7"}
StringChars == {DQ, BS, "n", "0", "t", "r"}
CharChars == {SQ, BS, "n", EAcute}

WordConfigs ==
    {builder_add_operators(builder_add_symbols(builder_new, <<";">>), <<"+">>)}

DecimalConfigs ==
    {builder_ignore_numbers(builder_allow_digit_separator(builder_new, sep), ign) :
        sep \in {No, "_"}, ign \in BOOLEAN}

RadixConfigs == {builder_ignore_numbers(builder_new, ign) : ign \in BOOLEAN}

StringConfigs == {builder_new}

CharConfigs == {builder_parse_char_as_string(builder_new, p) : p \in BOOLEAN}

Families ==
    {[chars |-> WordChars, configs |-> WordConfigs],
     [chars |-> DecimalChars, configs |-> DecimalConfigs],
     [chars |-> RadixChars, configs |-> RadixConfigs],
     [chars |-> StringChars, configs |-> StringConfigs],
     [chars |-> CharChars, configs |-> CharConfigs]}

-----------------------------------------------------------------------------
(* The state after TokenizerBuilder::build(input).                         *)

Init ==
    /\ \E fam \in Families, k \in 0..MaxChars :
          \E input \in [1..k -> fam.chars \cup {LF}], conf \in fam.configs :
             /\ lines = input_lines(input)
             /\ config = conf
    /\ ln = 0
    /\ col = 0
    /\ tokens = <<>>
    /\ pc = "tokenize"
    /\ err = NoError
    /\ buf = <<>>
    /\ start = <<0, 0>>
    /\ flag = FALSE
    /\ inner_col = 0
    /\ num_type = "Seq"
    /\ delim = DQ
    /\ warned = FALSE
    \* the calls are recorded by BuilderSpec alone; a scan starts built
    /\ calls = <<>>

-----------------------------------------------------------------------------
(* Steps shared by the actions.                                            *)

\* self.consume(n)
Advance(n) ==
    LET r == consume(ln, col, n)
    IN  /\ ln' = r.ln
        /\ col' = r.col
        /\ warned' = (warned \/ r.warned)

\* the locals of a sub-scanner that is not running
NoLocals ==
    /\ buf' = <<>>
    /\ start' = <<0, 0>>
    /\ flag' = FALSE
    /\ inner_col' = 0
    /\ num_type' = "Seq"
    /\ delim' = DQ

\* tokens.push(tok) by the dispatcher, which loops
Push(tok) ==
    /\ tokens' = Append(tokens, tok)
    /\ pc' = "tokenize"
    /\ err' = err
    /\ NoLocals

\* a sub-scanner returns Ok(tok) without moving the cursor further
ReturnToken(tok) ==
    /\ Push(tok)
    /\ UNCHANGED <<ln, col, warned>>

\* a sub-scanner returns Err(e): `?` makes tokenize return it
ReturnErr(e) ==
    /\ pc' = "Err"
    /\ err' = e
    /\ UNCHANGED <<tokens, buf, start, flag, inner_col, num_type, delim>>

\* a sub-scanner start that never sets encountered_dot
Enter_dot_not_seen(scanner, text, d) ==
    /\ pc' = scanner
    /\ buf' = text
    /\ start' = <<ln, col>>
    /\ flag' = FALSE
    /\ inner_col' = col
    /\ num_type' = "Seq"
    /\ delim' = d
    /\ UNCHANGED <<tokens, err>>

\* a sub-scanner starts at the cursor with `text` already pushed; the only
\* text pushed before a loop is parse_float's "0.", with encountered_dot set
Enter(scanner, text, d) ==
    /\ pc' = scanner
    /\ buf' = text
    /\ start' = <<ln, col>>
    /\ flag' = (text # <<>>)
    /\ inner_col' = col
    /\ num_type' = "Seq"
    /\ delim' = d
    /\ UNCHANGED <<tokens, err>>

Here == get_next_char(ln, col)

-----------------------------------------------------------------------------
(* tokenize: one action per branch of the dispatcher loop.                 *)

\* the loop ends: Ok(tokens)
tokenize_out ==
    /\ pc = "tokenize"
    /\ is_out_of_bound(ln, col) = "Out"
    /\ pc' = "Ok"
    /\ UNCHANGED <<calls, lines, config, ln, col, tokens, err, buf, start, flag,
                   inner_col, num_type, delim, warned>>

\* next_line() on an empty line
tokenize_empty ==
    /\ pc = "tokenize"
    /\ is_out_of_bound(ln, col) = "Empty"
    /\ ln' = ln + 1
    /\ col' = 0
    /\ UNCHANGED <<calls, lines, config, tokens, pc, err, buf, start, flag,
                   inner_col, num_type, delim, warned>>

tokenize_space ==
    /\ pc = "tokenize"
    /\ Here = SP
    /\ Advance(1)
    /\ UNCHANGED <<calls, lines, config, tokens, pc, err, buf, start, flag,
                   inner_col, num_type, delim>>

\* parse_float pushing the dot alone
float_prefix_bare_dot == <<".">>

\* the text parse_float pushes for a leading dot
float_prefix == <<"0", ".">>

\* a dispatch that takes every leading digit for a hex prefix
number_scanner_always_hex(first_digit, peek) == "parse_hex"

\* the scanner a leading digit is dispatched to, by the lookahead
number_scanner(first_digit, peek) ==
    IF first_digit = "0"
    THEN CASE peek = "x" -> "parse_hex"
           [] peek = "o" -> "parse_octal"
           [] peek = "b" -> "parse_binary"
           [] peek = "." -> "parse_float"
           [] OTHER -> "parse_number"
    ELSE "parse_number"

\* the digit test of the dispatcher without its ignore_numbers condition
starts_number_any_config(c, conf) == is_ascii_digit(c)

\* whether the dispatcher treats the current character as a number's start
starts_number(c, conf) == is_ascii_digit(c) /\ ~conf.ignore_numbers

\* a digit: parse_hex / parse_octal / parse_binary consume the two-character
\* prefix before their loop; parse_float and parse_number consume nothing
tokenize_digit ==
    /\ pc = "tokenize"
    /\ Here # None
    /\ Here # SP
    /\ starts_number(Here, config)
    /\ LET scanner == number_scanner(Here, peek_tok(ln, col))
       IN  /\ Enter(scanner, <<>>, delim)
           /\ IF scanner \in {"parse_hex", "parse_octal", "parse_binary"}
              THEN Advance(2)
              ELSE UNCHANGED <<ln, col, warned>>
    /\ UNCHANGED <<calls, lines, config>>

\* whether a dot with this lookahead starts a float
dot_starts_float(peek, conf) ==
    /\ peek # None
    /\ peek # LF
    /\ is_ascii_digit(peek)
    /\ ~conf.ignore_numbers

\* a dot: a float when a digit follows, else the symbol "."
tokenize_dot ==
    /\ pc = "tokenize"
    /\ Here = "."
    /\ ~starts_number(Here, config)
    /\ IF dot_starts_float(peek_tok(ln, col), config)
       THEN /\ Enter("parse_float", float_prefix, delim)
            /\ Advance(1)
       ELSE /\ Push(Token("Symbol", "None", <<".">>, <<ln, col>>))
            /\ Advance(1)
    /\ UNCHANGED <<calls, lines, config>>

\* parse_string(None): the opening quote is consumed
tokenize_string ==
    /\ pc = "tokenize"
    /\ Here = DQ
    /\ Enter("parse_string", <<>>, DQ)
    /\ Advance(1)
    /\ UNCHANGED <<calls, lines, config>>

\* parse_char without its parse_char_as_string branch
char_scanner_always_strict(conf) == "parse_char"

\* the scanner parse_char runs
char_scanner(conf) ==
    IF conf.parse_char_as_string THEN "parse_string" ELSE "parse_char"

\* parse_char: parse_string(Some('\'')) or the strict loop
tokenize_char ==
    /\ pc = "tokenize"
    /\ Here = SQ
    /\ Enter(char_scanner(config), <<>>, SQ)
    /\ Advance(1)
    /\ UNCHANGED <<calls, lines, config>>

\* none of the earlier branches of the dispatcher took the character
Unclaimed(c) ==
    /\ c # None
    /\ c # SP
    /\ ~starts_number(c, config)
    /\ c \notin {".", DQ, SQ}

tokenize_symbol ==
    /\ pc = "tokenize"
    /\ Unclaimed(Here)
    /\ contains(config.consider_as_symbols, Here)
    /\ Push(Token("Symbol", "None", <<Here>>, <<ln, col>>))
    /\ Advance(1)
    /\ UNCHANGED <<calls, lines, config>>

tokenize_operator ==
    /\ pc = "tokenize"
    /\ Unclaimed(Here)
    /\ ~contains(config.consider_as_symbols, Here)
    /\ contains(config.consider_as_operators, Here)
    /\ Push(Token("Operator", "None", <<Here>>, <<ln, col>>))
    /\ Advance(1)
    /\ UNCHANGED <<calls, lines, config>>

tokenize_word ==
    /\ pc = "tokenize"
    /\ Unclaimed(Here)
    /\ ~contains(config.consider_as_symbols, Here)
    /\ ~contains(config.consider_as_operators, Here)
    /\ Enter("parse_word", <<>>, delim)
    /\ UNCHANGED <<calls, lines, config, ln, col, warned>>

-----------------------------------------------------------------------------
(* The sub-scanners: one action per iteration of the `while let` loop; the *)
(* iteration that leaves the loop returns the token or the error.          *)

parse_word ==
    /\ pc = "parse_word"
    /\ IF /\ Here # None
          /\ Here # SP
          /\ ~contains(config.consider_as_symbols, Here)
          /\ ~contains(config.consider_as_operators, Here)
       THEN /\ buf' = Append(buf, Here)
            /\ Advance(1)
            /\ UNCHANGED <<tokens, pc, err, start, flag, inner_col, num_type, delim>>
       ELSE ReturnToken(Token("Word", "None", buf, start))
    /\ UNCHANGED <<calls, lines, config>>

\* flag is encountered_dot
parse_float ==
    /\ pc = "parse_float"
    /\ IF Here # None /\ is_ascii_digit(Here)
       THEN /\ buf' = Append(buf, Here)
            /\ Advance(1)
            /\ UNCHANGED <<tokens, pc, err, start, flag, inner_col, num_type, delim>>
       ELSE IF Here = "." /\ ~flag
       THEN /\ buf' = Append(buf, ".")
            /\ flag' = TRUE
            /\ Advance(1)
            /\ UNCHANGED <<tokens, pc, err, start, inner_col, num_type, delim>>
       ELSE ReturnToken(Token("Number", "Float", buf, start))
    /\ UNCHANGED <<calls, lines, config>>

\* whether c is the configured digit separator
is_separator(c, conf) ==
    conf.allow_digit_separator # No /\ c = conf.allow_digit_separator

\* the location parse_number reports for a misplaced separator
separator_error_loc(start_ln, inner) == <<start_ln, inner>>

\* flag is parsing_float
parse_number ==
    /\ pc = "parse_number"
    /\ IF Here # None /\ is_ascii_digit(Here)
       THEN /\ buf' = Append(buf, Here)
            /\ inner_col' = inner_col + 1
            /\ Advance(1)
            /\ UNCHANGED <<tokens, pc, err, start, flag, num_type, delim>>
       ELSE IF Here = "." /\ ~flag
       THEN /\ flag' = TRUE
            /\ buf' = Append(buf, ".")
            /\ num_type' = "Float"
            /\ inner_col' = inner_col + 1
            /\ Advance(1)
            /\ UNCHANGED <<tokens, pc, err, start, delim>>
       ELSE IF Here # None /\ Here # "." /\ is_separator(Here, config)
       THEN LET after == consume(ln, col, 1)
                next_char == get_next_char(after.ln, after.col)
            IN  IF next_char # None /\ is_ascii_digit(next_char)
                THEN LET r == consume(after.ln, after.col, 1)
                     IN  /\ buf' = Append(buf, next_char)
                         /\ inner_col' = inner_col + 1
                         /\ ln' = r.ln
                         /\ col' = r.col
                         /\ warned' = (warned \/ after.warned \/ r.warned)
                         /\ UNCHANGED <<tokens, pc, err, start, flag, num_type, delim>>
                ELSE /\ ReturnErr(UnexpectedDigitSeparator(
                                    separator_error_loc(start[1], inner_col)))
                     /\ ln' = after.ln
                     /\ col' = after.col
                     /\ warned' = (warned \/ after.warned)
       ELSE ReturnToken(Token("Number", num_type, buf, start))
    /\ UNCHANGED <<calls, lines, config>>

\* the loop shared by parse_binary, parse_hex and parse_octal; is_digit tells
\* whether the current character is a digit of the scanner's alphabet
RadixLoop(ntype, is_digit) ==
    /\ IF is_digit
       THEN /\ buf' = Append(buf, Here)
            /\ Advance(1)
            /\ UNCHANGED <<tokens, pc, err, start, flag, inner_col, num_type, delim>>
       ELSE ReturnToken(Token("Number", ntype, buf, start))
    /\ UNCHANGED <<calls, lines, config>>

parse_binary ==
    /\ pc = "parse_binary"
    /\ RadixLoop("Binary", Here # None /\ is_binary_digit(Here))

parse_hex ==
    /\ pc = "parse_hex"
    /\ RadixLoop("Hex", Here # None /\ is_ascii_hexdigit(Here))

parse_octal ==
    /\ pc = "parse_octal"
    /\ RadixLoop("Octal", Here # None /\ is_octal_digit(Here))

\* parse_string keeping every escape as written
escape_text_verbatim(c) == <<BS, c>>

\* the text parse_string pushes for the character after a backslash
escape_text(c) ==
    CASE c = "n" -> <<LF>>
      [] c = "0" -> <<NUL>>
      [] c = "t" -> <<TAB>>
      [] c = "r" -> <<CR>>
      [] c = BS -> <<BS>>
      [] OTHER -> <<BS, c>>

\* flag is is_escaped
parse_string ==
    /\ pc = "parse_string"
    /\ IF Here = None
       THEN ReturnToken(Token("String", "None", buf, start))
       ELSE IF Here = delim /\ ~flag
       THEN /\ Push(Token("String", "None", buf, start))
            /\ Advance(1)
       ELSE IF Here = BS /\ ~flag
       THEN /\ flag' = TRUE
            /\ Advance(1)
            /\ UNCHANGED <<tokens, pc, err, buf, start, inner_col, num_type, delim>>
       ELSE /\ buf' = (IF flag THEN buf \o escape_text(Here) ELSE Append(buf, Here))
            /\ flag' = FALSE
            /\ Advance(1)
            /\ UNCHANGED <<tokens, pc, err, start, inner_col, num_type, delim>>
    /\ UNCHANGED <<calls, lines, config>>

\* the text the strict loop of parse_char pushes for a character, after a
\* backslash or not
char_text(c, is_escaped) == <<c>>

\* chr.len() > 1 : the length is in bytes
char_too_long(chr) == string_len(chr) > 1

\* the end of the strict scanner: out_type, then the length check
CharResult ==
    LET out_type == IF ~config.parse_char_as_string THEN "Char" ELSE "String"
    IN  IF out_type = "Char" /\ char_too_long(buf)
        THEN ReturnErr(NotAValidChar(start))
        ELSE /\ tokens' = Append(tokens, Token(out_type, "None", buf, start))
             /\ pc' = "tokenize"
             /\ err' = err
             /\ NoLocals

\* the strict loop of parse_char; flag is is_escaped
parse_char ==
    /\ pc = "parse_char"
    /\ IF Here = None
       THEN /\ CharResult
            /\ UNCHANGED <<ln, col, warned>>
       ELSE IF Here = SQ /\ ~flag
       THEN /\ CharResult
            /\ Advance(1)
       ELSE IF Here = BS /\ ~flag
       THEN /\ flag' = TRUE
            /\ Advance(1)
            /\ UNCHANGED <<tokens, pc, err, buf, start, inner_col, num_type, delim>>
       ELSE /\ buf' = buf \o char_text(Here, flag)
            /\ flag' = FALSE
            /\ Advance(1)
            /\ UNCHANGED <<tokens, pc, err, start, inner_col, num_type, delim>>
    /\ UNCHANGED <<calls, lines, config>>

-----------------------------------------------------------------------------

Next ==
    \/ tokenize_out
    \/ tokenize_empty
    \/ tokenize_space
    \/ tokenize_digit
    \/ tokenize_dot
    \/ tokenize_string
    \/ tokenize_char
    \/ tokenize_symbol
    \/ tokenize_operator
    \/ tokenize_word
    \/ parse_word
    \/ parse_float
    \/ parse_number
    \/ parse_binary
    \/ parse_hex
    \/ parse_octal
    \/ parse_string
    \/ parse_char

Spec == Init /\ [][Next]_vars

\* tokenize is one sequential loop: a scan that can take a step takes it
FairSpec == Spec /\ WF_vars(Next)

\* tokenize's return value
Returned ==
    CASE pc = "Ok" -> [tag |-> "Ok", tokens |-> tokens]
      [] pc = "Err" -> [tag |-> "Err", error |-> err]
      [] OTHER -> [tag |-> "Running"]

-----------------------------------------------------------------------------
(* The builder: Tokenizer::builder(), at most MaxCalls calls of its        *)
(* methods, then build.  Each action makes one call and records it.        *)

\* the characters and slices passed to add_symbol(s) and add_operator(s)
BuilderChars == {".", "+"}
BuilderSlices == {<<>>, <<".">>, <<"+", ".">>}
BuilderSeparators == {No, "_", "."}
BuilderInputs == {<<>>, <<"a", LF, "+">>}

\* Tokenizer::builder()
BuilderInit ==
    /\ config = builder_new
    /\ calls = <<>>
    /\ pc = "builder"
    /\ lines = <<>>
    /\ ln = 0
    /\ col = 0
    /\ tokens = <<>>
    /\ err = NoError
    /\ buf = <<>>
    /\ start = <<0, 0>>
    /\ flag = FALSE
    /\ inner_col = 0
    /\ num_type = "Seq"
    /\ delim = DQ
    /\ warned = FALSE

\* one call of a builder method: the configuration it returns
Call(method, arg, conf) ==
    /\ pc = "builder"
    /\ Len(calls) < MaxCalls
    /\ config' = conf
    /\ calls' = Append(calls, [method |-> method, arg |-> arg])
    /\ UNCHANGED <<lines, ln, col, tokens, pc, err, buf, start, flag,
                   inner_col, num_type, delim, warned>>

call_parse_char_as_string ==
    \E set_to \in BOOLEAN :
        Call("parse_char_as_string", set_to,
             builder_parse_char_as_string(config, set_to))

call_ignore_numbers ==
    \E set_to \in BOOLEAN :
        Call("ignore_numbers", set_to, builder_ignore_numbers(config, set_to))

call_allow_digit_separator ==
    \E choice \in BuilderSeparators :
        Call("allow_digit_separator", choice,
             builder_allow_digit_separator(config, choice))

call_add_symbol ==
    \E sym \in BuilderChars :
        Call("add_symbol", sym, builder_add_symbol(config, sym))

call_add_symbols ==
    \E syms \in BuilderSlices :
        Call("add_symbols", syms, builder_add_symbols(config, syms))

call_add_operator ==
    \E op \in BuilderChars :
        Call("add_operator", op, builder_add_operator(config, op))

call_add_operators ==
    \E ops \in BuilderSlices :
        Call("add_operators", ops, builder_add_operators(config, ops))

\* build(with_input): Tokenizer::new(with_input, self.conf)
build ==
    /\ pc = "builder"
    /\ \E input \in BuilderInputs : lines' = input_lines(input)
    /\ pc' = "tokenize"
    /\ ln' = 0
    /\ col' = 0
    /\ UNCHANGED <<calls, config, tokens, err, buf, start, flag, inner_col,
                   num_type, delim, warned>>

BuilderNext ==
    \/ call_parse_char_as_string
    \/ call_ignore_numbers
    \/ call_allow_digit_separator
    \/ call_add_symbol
    \/ call_add_symbols
    \/ call_add_operator
    \/ call_add_operators
    \/ build

BuilderSpec == BuilderInit /\ [][BuilderNext]_vars

-----------------------------------------------------------------------------
(* What the claims speak of, read off the input grid alone.                *)

InGrid(loc) ==
    /\ loc[1] < Len(lines)
    /\ loc[2] < Len(lines[loc[1] + 1])

CharAt(loc) == lines[loc[1] + 1][loc[2] + 1]

\* The characters that follow position (l, c) in cursor order, that one
\* included: the rest of its line, then the lines after it up to the first
\* empty line or the end of the input.
RECURSIVE Following(_, _)
Following(l, c) ==
    IF l >= Len(lines) \/ lines[l + 1] = <<>> THEN <<>>
    ELSE SubSeq(lines[l + 1], c + 1, Len(lines[l + 1])) \o Following(l + 1, 0)

\* the characters after the one at loc
After(loc) == Tail(Following(loc[1], loc[2]))

\* the longest prefix of s whose characters are all in `alphabet`
RECURSIVE MaximalRun(_, _)
MaximalRun(s, alphabet) ==
    IF s = <<>> \/ Head(s) \notin alphabet THEN <<>>
    ELSE <<Head(s)>> \o MaximalRun(Tail(s), alphabet)

DecimalDigits == {"0", "1", "2", "3", "4", "5", "6", "7", "8", "9"}
OctalDigits == {"0", "1", "2", "3", "4", "5", "6", "7"}
BinaryDigits == {"0", "1"}
HexDigits ==
    DecimalDigits \cup {"a", "b", "c", "d", "e", "f", "A", "B", "C", "D", "E", "F"}

TokenSet == {tokens[i] : i \in 1..Len(tokens)}

OneLine == Len(lines) = 1

AllWhitespace ==
    \A i \in 1..Len(lines) : \A j \in 1..Len(lines[i]) : lines[i][j] \in {SP, TAB}

\* the text of a quoted literal as the claims describe it: s is what follows
\* the opening quote; an unescaped d closes the literal, a backslash and the
\* character after it stand for one character or, unrecognized, for both
EscapeTable ==
    [c \in {"n", "0", "t", "r", BS} |->
        CASE c = "n" -> LF
          [] c = "0" -> NUL
          [] c = "t" -> TAB
          [] c = "r" -> CR
          [] c = BS -> BS]

RECURSIVE Decoded(_, _)
Decoded(s, d) ==
    IF s = <<>> \/ Head(s) = d THEN <<>>
    ELSE IF Head(s) # BS THEN <<Head(s)>> \o Decoded(Tail(s), d)
    ELSE IF Len(s) = 1 THEN <<>>
    ELSE (IF s[2] \in DOMAIN EscapeTable THEN <<EscapeTable[s[2]]>> ELSE <<BS, s[2]>>)
         \o Decoded(SubSeq(s, 3, Len(s)), d)

\* the characters between the quotes as written: s is what follows the opening
\* quote; a quote after an unescaped backslash does not close the literal
RECURSIVE Between(_, _, _)
Between(s, d, escaped) ==
    IF s = <<>> \/ (Head(s) = d /\ ~escaped) THEN <<>>
    ELSE <<Head(s)>> \o Between(Tail(s), d, Head(s) = BS /\ ~escaped)

\* the text of the decimal or float literal at the head of s with its valid
\* separators removed: digits, at most one dot, and separators that a digit
\* follows
RECURSIVE LiteralText(_, _, _)
LiteralText(s, sep, dot_seen) ==
    IF s = <<>> THEN <<>>
    ELSE IF Head(s) \in DecimalDigits
         THEN <<Head(s)>> \o LiteralText(Tail(s), sep, dot_seen)
    ELSE IF Head(s) = "." /\ ~dot_seen
         THEN <<".">> \o LiteralText(Tail(s), sep, TRUE)
    ELSE IF Head(s) = sep /\ Len(s) >= 2 /\ s[2] \in DecimalDigits
         THEN LiteralText(Tail(s), sep, dot_seen)
    ELSE <<>>

\* whether the literal at the head of s holds a separator no digit follows
RECURSIVE SeparatorMisused(_, _, _)
SeparatorMisused(s, sep, dot_seen) ==
    IF s = <<>> THEN FALSE
    ELSE IF Head(s) \in DecimalDigits THEN SeparatorMisused(Tail(s), sep, dot_seen)
    ELSE IF Head(s) = "." /\ ~dot_seen THEN SeparatorMisused(Tail(s), sep, TRUE)
    ELSE IF Head(s) = "." THEN FALSE
    ELSE IF Head(s) = sep
         THEN (IF Len(s) >= 2 /\ s[2] \in DecimalDigits
               THEN SeparatorMisused(Tail(s), sep, dot_seen)
               ELSE TRUE)
    ELSE FALSE

LocBefore(a, b) == a[1] < b[1] \/ (a[1] = b[1] /\ a[2] < b[2])

-----------------------------------------------------------------------------
(* The claims.                                                             *)

\* C1 (as claimed): for an input made only of spaces, tabs and blank lines,
\* tokenize returns Ok with no token.
C1_WhitespaceYieldsNoTokens ==
    AllWhitespace => (pc # "Err" /\ tokens = <<>>)

\* C2 (as claimed), on a one-line input: when parse_number is on a configured
\* separator that no ASCII digit follows, the scan fails with
\* UnexpectedDigitSeparator located at that separator, the one under the
\* cursor, whichever separator of the literal it is.
C2_ErrorLocatedAtSeparator ==
    [][(/\ OneLine
        /\ pc = "parse_number"
        /\ Here = config.allow_digit_separator
        /\ Here \notin DecimalDigits \cup {"."}
        /\ LET s == Following(ln, col)
           IN  Len(s) < 2 \/ s[2] \notin DecimalDigits)
       => (/\ pc' = "Err"
           /\ err' = UnexpectedDigitSeparator(<<ln, col>>))]_vars

\* the text the claim C3 gives the literal that starts at loc
ExpectedLiteral(loc) ==
    IF CharAt(loc) = "."
    THEN <<"0", ".">> \o LiteralText(After(loc), config.allow_digit_separator, TRUE)
    ELSE LiteralText(Following(loc[1], loc[2]), config.allow_digit_separator, FALSE)

\* C3 (as claimed), on a one-line input: with a separator configured, every
\* Seq or Float token, those of literals that begin with "0." or "." included,
\* has the text of its whole literal, the digits and the dot, with each
\* separator that a digit follows removed.
C3_SeparatorsRemoved ==
    (config.allow_digit_separator # No /\ OneLine) =>
        \A t \in TokenSet :
            (t.type = "Number" /\ t.ntype \in {"Seq", "Float"}) =>
                t.value = ExpectedLiteral(t.loc)

\* the literal that starts at loc has its closing quote
Closed(loc, d) == Len(Between(After(loc), d, FALSE)) < Len(After(loc))

\* C4 (as claimed), for a literal that is closed: tokenize fails with
\* NotAValidChar only in strict mode, at the start of a single-quoted literal
\* with more than one character between its quotes; a literal with one
\* character, non-ASCII or not, is no error.
C4_NotAValidCharOnlyForSeveral ==
    (pc = "Err" /\ err.kind = "NotAValidChar" /\ Closed(start, SQ)) =>
        /\ ~config.parse_char_as_string
        /\ err.loc = start
        /\ InGrid(start)
        /\ CharAt(start) = SQ
        /\ Len(Between(After(start), SQ, FALSE)) > 1

\* C5: a token that starts at a double quote is a String whose text is the
\* decoded content: each of \n, \0, \t, \r, \\ gives its one character, any
\* other escaped character (the double quote too) gives the backslash and the
\* character and does not close the string.
C5_StringEscapes ==
    \A t \in TokenSet :
        CharAt(t.loc) = DQ =>
            /\ t.type = "String"
            /\ t.value = Decoded(After(t.loc), DQ)

\* a closed string with a recognized escape has been scanned
C5_Witness ==
    /\ pc = "Ok"
    /\ \E t \in TokenSet :
          /\ CharAt(t.loc) = DQ
          /\ After(t.loc) = <<BS, "n", DQ>>
          /\ t.value = <<LF>>

\* C6 (as claimed), for a literal that is closed: the text of a Char token is
\* the text the quoted-literal scanner with delimiter ' gives the same content.
C6_CharDecodesLikeString ==
    \A t \in TokenSet :
        (t.type = "Char" /\ Closed(t.loc, SQ)) =>
            t.value = Decoded(After(t.loc), SQ)

RadixKind(c) ==
    CASE c = "x" -> "Hex" [] c = "o" -> "Octal" [] c = "b" -> "Binary"

RadixAlphabet(c) ==
    CASE c = "x" -> HexDigits [] c = "o" -> OctalDigits [] c = "b" -> BinaryDigits

\* loc holds a 0 that x, o or b follows
AtRadixPrefix(loc) ==
    /\ CharAt(loc) = "0"
    /\ After(loc) # <<>>
    /\ Head(After(loc)) \in {"x", "o", "b"}

\* the token at a radix prefix is the Number of the prefix's sub-kind whose
\* text is the maximal run of that alphabet after the prefix
RadixToken(t) ==
    LET a == After(t.loc)
    IN  /\ t.type = "Number"
        /\ t.ntype = RadixKind(Head(a))
        /\ t.value = MaximalRun(Tail(a), RadixAlphabet(Head(a)))

\* C7 (as claimed): the token scanned from a 0 that x, o or b follows is the
\* Hex, Octal or Binary Number located at the 0, with the maximal run of its
\* alphabet after the prefix as text (empty when there is no such digit).
C7_RadixAsClaimed ==
    \A t \in TokenSet : AtRadixPrefix(t.loc) => RadixToken(t)

\* C7 (amended): the same with ignore_numbers false; and a Hex, Octal or
\* Binary token is scanned nowhere else.
C7_Radix ==
    ~config.ignore_numbers =>
        /\ \A t \in TokenSet : AtRadixPrefix(t.loc) => RadixToken(t)
        /\ \A t \in TokenSet :
              t.ntype \in {"Hex", "Octal", "Binary"} => AtRadixPrefix(t.loc)

\* a Hex token with two digits, the second a letter, has been scanned
C7_Witness ==
    \E t \in TokenSet :
        /\ t.ntype = "Hex"
        /\ t.loc = <<0, 0>>
        /\ t.value = <<"1", "b">>

\* C8: with ignore_numbers false, the token scanned from a dot that an ASCII
\* digit follows is the Float located at the dot whose text is "0." and the
\* maximal run of digits after the dot.
C8_LeadingDotFloat ==
    ~config.ignore_numbers =>
        \A t \in TokenSet :
            (/\ CharAt(t.loc) = "."
             /\ After(t.loc) # <<>>
             /\ Head(After(t.loc)) \in DecimalDigits)
            => /\ t.type = "Number"
               /\ t.ntype = "Float"
               /\ t.value = <<"0", ".">> \o MaximalRun(After(t.loc), DecimalDigits)

\* ".11" has been scanned and the scan went on
C8_Witness ==
    \E t \in TokenSet :
        /\ CharAt(t.loc) = "."
        /\ t.value = <<"0", ".", "1", "1">>

\* C9 (as claimed): tokenize returns Err only for a decimal literal with a
\* separator no digit follows, or for a strict-mode char literal with more
\* than one character between its quotes; the literal is the one being
\* scanned, every token scanned so far starts before it, and the value
\* returned holds the error alone.
C9_ErrOnlyForOffendingLiteral ==
    pc = "Err" =>
        /\ Returned = [tag |-> "Err", error |-> err]
        /\ InGrid(start)
        /\ err.loc[1] = start[1]
        /\ \A t \in TokenSet : LocBefore(t.loc, start)
        /\ \/ /\ err.kind = "UnexpectedDigitSeparator"
              /\ config.allow_digit_separator # No
              /\ CharAt(start) \in DecimalDigits
              /\ SeparatorMisused(Following(start[1], start[2]),
                                  config.allow_digit_separator, FALSE)
           \/ /\ err.kind = "NotAValidChar"
              /\ ~config.parse_char_as_string
              /\ CharAt(start) = SQ
              /\ Len(Between(After(start), SQ, FALSE)) > 1

\* C10: with parse_char_as_string true no scan fails with NotAValidChar, no
\* token is a Char, and the token scanned from a single quote is a String
\* whose text is the decoded content between the quotes, however long.
C10_CharAsString ==
    config.parse_char_as_string =>
        /\ err.kind # "NotAValidChar"
        /\ \A t \in TokenSet :
              /\ t.type # "Char"
              /\ CharAt(t.loc) = SQ =>
                    /\ t.type = "String"
                    /\ t.value = Decoded(After(t.loc), SQ)

\* a single-quoted literal of two characters has been scanned as a String
C10_Witness ==
    /\ config.parse_char_as_string
    /\ \E t \in TokenSet :
          /\ CharAt(t.loc) = SQ
          /\ t.type = "String"
          /\ Len(t.value) = 2
          /\ BS \notin {t.value[i] : i \in 1..Len(t.value)}

\* the longest prefix of s that holds no character of `stops`
RECURSIVE RunUntil(_, _)
RunUntil(s, stops) ==
    IF s = <<>> \/ Head(s) \in stops THEN <<>>
    ELSE <<Head(s)>> \o RunUntil(Tail(s), stops)

\* the characters that end a word: the space and the configured symbols and
\* operators
WordStops ==
    {SP} \cup {config.consider_as_symbols[i] : i \in 1..Len(config.consider_as_symbols)}
         \cup {config.consider_as_operators[i] : i \in 1..Len(config.consider_as_operators)}

NumberScanners ==
    {"parse_float", "parse_number", "parse_binary", "parse_hex", "parse_octal"}

Scanners == NumberScanners \cup {"parse_word", "parse_string", "parse_char"}

LocAtMost(a, b) == a = b \/ LocBefore(a, b)

\* the token sequence is in source order, every location on a character that
\* is no space; a running sub-scanner started after every token scanned so
\* far and the cursor is not before its start
TokensInSourceOrder ==
    /\ \A i \in 1..Len(tokens) :
          /\ InGrid(tokens[i].loc)
          /\ CharAt(tokens[i].loc) # SP
          /\ LocBefore(tokens[i].loc, <<ln, col>>)
    /\ \A i, j \in 1..Len(tokens) :
          i < j => LocBefore(tokens[i].loc, tokens[j].loc)
    /\ pc \in Scanners =>
          /\ InGrid(start)
          /\ LocAtMost(start, <<ln, col>>)
          /\ \A i \in 1..Len(tokens) : LocBefore(tokens[i].loc, start)

\* a token's location is the dispatcher's cursor at the iteration that scans
\* it: a sub-scanner records it on entry, before it consumes, and keeps it
TokenLocatedAtFirstConsumed ==
    /\ (pc = "tokenize" /\ pc' \in Scanners) => start' = <<ln, col>>
    /\ (pc \in Scanners /\ pc' = pc) => start' = start
    /\ Len(tokens') # Len(tokens) =>
          /\ Len(tokens') = Len(tokens) + 1
          /\ SubSeq(tokens', 1, Len(tokens)) = tokens
          /\ tokens'[Len(tokens')].loc = (IF pc = "tokenize" THEN <<ln, col>> ELSE start)

\* C12: in every token sequence, returned or under construction, each
\* token's location is the cursor position before anything was consumed for
\* it, a position of the input that holds a character other than the space,
\* and the locations strictly increase in (line, column) order.
C12_SourceOrder ==
    /\ []TokensInSourceOrder
    /\ [][TokenLocatedAtFirstConsumed]_vars

\* "a", a line break, " a": two Words returned, the second after a skipped
\* space on the second line
C12_Witness ==
    /\ pc = "Ok"
    /\ Len(tokens) = 2
    /\ tokens[2].loc = <<1, 1>>

\* the argument of the last call of `method`, `default` when it was never
\* called
LastSet(method, default) ==
    LET made == {i \in 1..Len(calls) : calls[i].method = method}
    IN  IF made = {} THEN default
        ELSE calls[CHOOSE i \in made : \A j \in made : j <= i].arg

SetOf(seq) == {seq[i] : i \in 1..Len(seq)}

\* every character passed to the one-character method `one` or, in a slice,
\* to the method `many`
Passed(one, many) ==
    {calls[i].arg : i \in {k \in 1..Len(calls) : calls[k].method = one}}
    \cup UNION {SetOf(calls[i].arg) :
                   i \in {k \in 1..Len(calls) : calls[k].method = many}}

\* the configuration the claim C13 gives after the calls made so far
ConfigAsBuilt ==
    /\ config.parse_char_as_string = LastSet("parse_char_as_string", FALSE)
    /\ config.ignore_numbers = LastSet("ignore_numbers", FALSE)
    /\ config.allow_digit_separator = LastSet("allow_digit_separator", No)
    /\ SetOf(config.consider_as_symbols)
          = {"."} \cup Passed("add_symbol", "add_symbols")
    /\ SetOf(config.consider_as_operators)
          = Passed("add_operator", "add_operators")

\* the option a builder method sets
OptionOf(method) ==
    CASE method \in {"add_symbol", "add_symbols"} -> "consider_as_symbols"
      [] method \in {"add_operator", "add_operators"} -> "consider_as_operators"
      [] OTHER -> method

\* a call changes no option but its own
OtherOptionsUnchanged ==
    calls' # calls =>
        \A option \in DOMAIN config :
            option # OptionOf(calls'[Len(calls')].method) =>
                config'[option] = config[option]

\* C13: after any sequence of builder calls, and after build, each of
\* parse_char_as_string, ignore_numbers and the digit separator has the value
\* of the last call that set it (false, false, none when never set), the
\* symbols are "." and every character passed to add_symbol(s), the operators
\* every character passed to add_operator(s); a call changes no other option.
C13_BuilderOptions ==
    /\ []ConfigAsBuilt
    /\ [][OtherOptionsUnchanged]_vars

\* ignore_numbers set, then a slice of symbols, then ignore_numbers cleared,
\* then build
C13_Witness ==
    /\ pc = "tokenize"
    /\ calls = <<[method |-> "ignore_numbers", arg |-> TRUE],
                 [method |-> "add_symbols", arg |-> <<"+", ".">>],
                 [method |-> "ignore_numbers", arg |-> FALSE]>>
    /\ ~config.ignore_numbers
    /\ config.consider_as_symbols = <<".", "+", ".">>

Terminated == pc \in {"Ok", "Err"}

\* an iteration of the dispatcher loop ends strictly after the cursor it
\* began at: the iterations that skip or push a token themselves are one
\* step; a sub-scanner call began at `start`; no step moves the cursor back
DispatcherProgress ==
    /\ LocAtMost(<<ln, col>>, <<ln', col'>>)
    /\ (pc = "tokenize" /\ pc' = "tokenize") =>
          LocBefore(<<ln, col>>, <<ln', col'>>)
    /\ (pc \in Scanners /\ pc' \notin Scanners) =>
          LocBefore(start, <<ln', col'>>)

C15_NoIndexOutOfRange ==
    /\ is_out_of_bound(ln, col) = "Within" =>
          /\ InGrid(<<ln, col>>)
          /\ LET r == fake_consume(ln, col, 1)
             IN  /\ r[1] # "Panic"
                 /\ r[1] = "Within" => InGrid(r[2])
          /\ peek_tok(ln, col) # "Panic"
    /\ Here # None => InGrid(<<ln, col>>)
    /\ (pc = "tokenize" /\ is_out_of_bound(ln, col) \notin {"Out", "Empty"}) =>
          Here # None
    /\ pc # "Panic"

\* the dispatcher looks ahead from a dot that ends its line, over the line
\* break, to a next line shorter than the dot's column
C15_Witness ==
    /\ pc = "tokenize"
    /\ Here = "."
    /\ ln = 0
    /\ col = 1
    /\ Len(lines) = 2
    /\ Len(lines[1]) = 2
    /\ Len(lines[2]) = 1
    /\ peek_tok(ln, col) = lines[2][1]

\* consume is not invoked while the cursor is Out: a step that moves the
\* cursor starts at a cursor that is not Out, and the second step of the
\* consume(2) of parse_hex, parse_octal and parse_binary starts at one too
AdvanceNotFromOut ==
    /\ <<ln', col'>> # <<ln, col>> => is_out_of_bound(ln, col) # "Out"
    /\ (pc = "tokenize" /\ pc' \in {"parse_hex", "parse_octal", "parse_binary"}) =>
          LET mid == consume(ln, col, 1)
          IN  /\ is_out_of_bound(mid.ln, mid.col) # "Out"
              /\ <<ln', col'>> # <<mid.ln, mid.col>>

\* consume invoked where the cursor is Out would leave it where it is
AdvanceAtOutIsNoOp ==
    is_out_of_bound(ln, col) = "Out" =>
        \A len \in 1..2 :
            /\ consume(ln, col, len).ln = ln
            /\ consume(ln, col, len).col = col

\* C16: during a scan consume is never invoked, and no step of consume(2) is
\* taken, while the cursor classifies as Out, so the warning is never
\* printed; and wherever the cursor of a scan is Out, consume would leave it
\* unchanged.
C16_NoAdvanceAtOut ==
    /\ [][AdvanceNotFromOut]_vars
    /\ [](~warned)
    /\ []AdvanceAtOutIsNoOp

\* "0x" is the whole input: consume(2) has taken its second step from the
\* last character and the cursor is Out, with no warning
C16_Witness ==
    /\ pc = "parse_hex"
    /\ lines = <<<<"0", "x">>>>
    /\ is_out_of_bound(ln, col) = "Out"
    /\ ~warned

\* C17: in every state of a scan, a cursor classified Within is on a
\* character of its line, one classified Empty is on a line of zero length,
\* and one classified Out is past the last line: the cursor never rests at a
\* column at or beyond the end of a line that exists and is not empty.
C17_Classification ==
    LET bound == is_out_of_bound(ln, col)
    IN  /\ bound = "Within" => (ln < Len(lines) /\ col < Len(lines[ln + 1]))
        /\ bound = "Empty" => (ln < Len(lines) /\ Len(lines[ln + 1]) = 0)
        /\ bound = "Out" => ln >= Len(lines)
        /\ ~(/\ ln < Len(lines)
             /\ lines[ln + 1] # <<>>
             /\ col >= Len(lines[ln + 1]))

\* "a", an empty line, "a": the cursor has left the end of a line twice, onto
\* the empty line and past the last line
C17_Witness ==
    /\ pc = "Ok"
    /\ Len(lines) = 3
    /\ lines[2] = <<>>
    /\ Len(tokens) = 2
    /\ ln = 3
    /\ col = 0

\* what consume(1) from (l, c) would expose: the character at the cursor it
\* leaves, the synthetic newline on an empty line, none past the end
ExposedByAdvance(l, c) ==
    LET r == consume(l, c, 1)
        bound == is_out_of_bound(r.ln, r.col)
    IN  CASE bound = "Within" -> lines[r.ln + 1][r.col + 1]
          [] bound = "Empty" -> LF
          [] OTHER -> None

\* wherever the cursor is Within, the lookahead computes the position
\* consume(1) moves to and returns what is there
LookaheadIsAdvance ==
    is_out_of_bound(ln, col) = "Within" =>
        /\ fake_position(ln, col, 1) = <<consume(ln, col, 1).ln, consume(ln, col, 1).col>>
        /\ peek_tok(ln, col) = ExposedByAdvance(ln, col)

\* the input never changes, and a dispatcher step that looks ahead and enters
\* a scanner that has consumed nothing yet leaves the cursor where it was
LookaheadKeepsCursor ==
    /\ lines' = lines
    /\ (/\ pc = "tokenize"
        /\ Here = "0"
        /\ pc' \in {"parse_number", "parse_float"}) => <<ln', col'>> = <<ln, col>>

\* C18: wherever the cursor is Within, the one-character lookahead returns
\* what consume(1) would expose (the character at the position it moves to,
\* the synthetic newline if that position is on an empty line, none if it is
\* past the end), and looking ahead moves neither the cursor nor the input.
C18_LookaheadIsAdvance ==
    /\ []LookaheadIsAdvance
    /\ [][LookaheadKeepsCursor]_vars

\* the dispatcher has acted on a lookahead taken from the last character of
\* a line: "0" ends the first line, the second starts with "x", and parse_hex
\* has been entered
C18_Witness ==
    /\ pc = "parse_hex"
    /\ start = <<0, 0>>
    /\ lines[1] = <<"0">>
    /\ peek_tok(0, 0) = "x"
    /\ buf = <<>>

\* loc holds the last character of its line
EndsLine(loc) == loc[2] = Len(lines[loc[1] + 1]) - 1

\* C19 (as claimed): the token scanned from a dot that is the last character
\* of its line is the Symbol "." located at the dot, whether the next line is
\* empty, not empty or absent, and whatever that line starts with.
C19_DotEndingLineIsSymbol ==
    \A t \in TokenSet :
        (CharAt(t.loc) = "." /\ EndsLine(t.loc)) =>
            t = Token("Symbol", "None", <<".">>, t.loc)

\* a sub-scanner consumes characters of the line it started on only, and the
\* dispatcher enters a scanner on a two-character decision (0 and x, o, b or
\* the dot; the dot and a digit) only when both characters are on one line
WithinOneLine ==
    /\ (pc \in Scanners /\ <<ln', col'>> # <<ln, col>>) => ln = start[1]
    /\ (/\ pc = "tokenize"
        /\ pc' \in {"parse_hex", "parse_octal", "parse_binary", "parse_float"}) =>
          ~EndsLine(<<ln, col>>)

\* C20 (as claimed): a line break is a token boundary: no Word, Number,
\* String or Char is built from characters of more than one line, and no
\* prefix or lookahead decision pairs the last character of a line with the
\* first character of the next.
C20_LineBreakIsTokenBoundary == [][WithinOneLine]_vars

\* the number of dots in a text
RECURSIVE Dots(_)
Dots(s) ==
    IF s = <<>> THEN 0
    ELSE (IF Head(s) = "." THEN 1 ELSE 0) + Dots(Tail(s))

\* the texts of the Number tokens: a Seq is a non-empty run of digits, a
\* Float is digits around exactly one dot, no other Number has a dot
NumberTexts ==
    \A t \in TokenSet :
        t.type = "Number" =>
            /\ Dots(t.value) <= 1
            /\ t.ntype = "Seq" =>
                  /\ t.value # <<>>
                  /\ SetOf(t.value) \subseteq DecimalDigits
            /\ t.ntype = "Float" =>
                  /\ Dots(t.value) = 1
                  /\ SetOf(t.value) \subseteq DecimalDigits \cup {"."}

\* a second dot met by parse_number or parse_float ends the token and stays
\* under the cursor, where the dispatcher starts the next token
SecondDotEndsToken ==
    /\ (pc \in {"parse_number", "parse_float"} /\ Here = "." /\ flag) =>
          /\ tokens' = Append(tokens, Token("Number", "Float", buf, start))
          /\ Dots(buf) = 1
          /\ pc' = "tokenize"
          /\ <<ln', col'>> = <<ln, col>>
    /\ (pc = "tokenize" /\ Here = ".") =>
          \/ pc' = "parse_float" /\ start' = <<ln, col>>
          \/ /\ pc' = "tokenize"
             /\ tokens' = Append(tokens, Token("Symbol", "None", <<".">>, <<ln, col>>))

\* C21: the text of every Number token has at most one dot: a Seq is a
\* non-empty run of ASCII digits, a Float has exactly one dot, and a second
\* dot met while a decimal or float literal is scanned ends the token without
\* being consumed and starts the next token.
C21_AtMostOneDot ==
    /\ []NumberTexts
    /\ [][SecondDotEndsToken]_vars

\* ".1.1" has been scanned: the second dot ended the first Float and started
\* the second
C21_Witness ==
    tokens = <<Token("Number", "Float", <<"0", ".", "1">>, <<0, 0>>),
               Token("Number", "Float", <<"0", ".", "1">>, <<0, 2>>)>>

\* the texts of the Word tokens: not empty, without space, symbol or
\* operator, and everything from the word's first character up to the first
\* space, symbol or operator, quotes and digits included
WordTexts ==
    \A t \in TokenSet :
        t.type = "Word" =>
            /\ t.value # <<>>
            /\ SetOf(t.value) \cap WordStops = {}
            /\ t.value = RunUntil(Following(t.loc[1], t.loc[2]), WordStops)

\* parse_word on a space, symbol or operator returns the word and leaves the
\* character under the cursor; on any other character it accumulates it
WordStopsUnconsumed ==
    /\ (pc = "parse_word" /\ Here \in WordStops) =>
          /\ tokens' = Append(tokens, Token("Word", "None", buf, start))
          /\ pc' = "tokenize"
          /\ <<ln', col'>> = <<ln, col>>
    /\ (pc = "parse_word" /\ Here \notin WordStops \cup {None}) =>
          /\ buf' = Append(buf, Here)
          /\ pc' = "parse_word"
          /\ <<ln', col'>> # <<ln, col>>

RECURSIVE RestOfInput(_, _)
RestOfInput(l, c) ==
    IF l >= Len(lines) THEN <<>>
    ELSE SubSeq(lines[l + 1], c + 1, Len(lines[l + 1])) \o RestOfInput(l + 1, 0)

\* the characters after the opening quote at loc, to the end of the input
ToEndOfInput(loc) == Tail(RestOfInput(loc[1], loc[2]))

\* no unescaped double quote follows the opening quote at loc
Unterminated(loc) ==
    Len(Between(ToEndOfInput(loc), DQ, FALSE)) = Len(ToEndOfInput(loc))

\* C23 (as claimed): a double-quoted string with no unescaped closing quote
\* after its opening quote is no error: the scan returns Ok, and the String
\* token scanned from that quote is the last token, its text the decoded form
\* of every character from after the quote to the end of the input.
C23_UnterminatedStringRunsToEnd ==
    \A i \in 1..Len(tokens) :
        (CharAt(tokens[i].loc) = DQ /\ Unterminated(tokens[i].loc)) =>
            /\ pc # "Err"
            /\ tokens[i].type = "String"
            /\ tokens[i].value = Decoded(ToEndOfInput(tokens[i].loc), DQ)
            /\ i = Len(tokens)

\* C24 (as claimed): in every state of a scan and for every hypothetical
\* (line, column), is_out_of_bound_for gives what is_out_of_bound gives with
\* the cursor at that position: Out past the last line, Empty on a line of
\* zero length, and otherwise Within or Out by the length of that line,
\* whichever line the live cursor is on.
C24_ClassifierByTargetLine ==
    \A l \in 0..Len(lines), c \in 0..MaxChars :
        is_out_of_bound_for(ln, l, c) = is_out_of_bound(l, c)

====
